---- MODULE Spec2Model ----
(***************************************************************************)
(* Model of ijo-utils' ApiServer (api/server.js): the handler table, the   *)
(* path matcher parsePath, the dispatcher handle and the server lifecycle; *)
(* and of its Logger (logger.js): the log levels, the cache and the writes *)
(* to the log file.                                                        *)
(*                                                                         *)
(* Strings are sequences of one-character strings, so that split("/"),     *)
(* startsWith(":") and substring(1) are computed as the code computes      *)
(* them.  A JavaScript object used as a map (pathData) is a set of         *)
(* <<key, value>> pairs with at most one pair per key.                     *)
(*                                                                         *)
(* One JavaScript job (a call, or the continuation of an await) is one     *)
(* atomic action.  The log calls of register() and handle() go to the      *)
(* collaborator handed to initialize() and leave the server's state alone; *)
(* register() needs that collaborator to be bound.  A callback is opaque:  *)
(* it is invoked, and later resolves truthy, resolves falsy, faults, or    *)
(* never settles.  The transport is Node's http.Server: listen() makes a   *)
(* server that is not listening listen (also after close()), close() stops *)
(* it at once and calls back when its connections have ended.              *)
(*                                                                         *)
(* Specifications: Spec (the server with one request), SpecTwo (the server *)
(* with concurrent requests), SpecParse (parsePath on its own), SpecLogger *)
(* (the logger on its own) and SpecLoggerFair (the same, every operation   *)
(* of the file system completing).                                         *)
(***************************************************************************)
EXTENDS Integers, Sequences, FiniteSets, TLC

(* ------------------------------ bounds -------------------------------- *)
\* Longest template and longest request path given to parsePath (SpecParse).
MaxTemplateLen == 5
MaxPathLen == 4
\* Number of register() calls and of requests in one run (Spec).
MaxReg == 3
NumReq == 1
\* The same for runs with concurrent requests (SpecTwo).
MaxRegTwo == 2
NumReqTwo == 2
\* Number of log calls in one run (SpecLogger).
MaxLog == 3

VARIABLES
    stack,      \* this.stack: the handler table, a sequence of entries
    server,     \* state of the transport held in this.server
    everClosed, \* history: some close() has resolved
    nextCb,     \* identity of the next callback handed to register()
    pc,         \* per request: position of its handle() call
    req,        \* per request: [method, pathname] of the incoming message
    idx,        \* per request: index of the entry the `for..of` iterator is at; 0 without iterator
    calls,      \* per request: history of the callback invocations (`at`: nextCb when invoked)
    res,        \* per request: what the dispatcher wrote to the response
    changed,    \* per request: history, this.stack was changed since handle() was entered
    hook,       \* the faults handleError() was invoked with, in order
    pTemplate,  \* parsePath's argument `template`
    pPath,      \* parsePath's argument `path`
    pResult,    \* parsePath's return value, or Unparsed before the call
    closePromise, \* the promise returned by the latest close() call
    lastRegister, \* outcome of the latest register() call: none, threw or pushed
    logLevel,   \* Logger: this.logLevel
    cache,      \* Logger: this.cache, the entries not yet handed to the file system
    writing,    \* Logger: this.writing
    logPath,    \* Logger: this.path, "undefined" until initialize() or close() sets it
    inflight,   \* Logger: the texts of the FSUtils.append calls that have not completed
    file,       \* Logger: the entries the file system has appended, in order
    folder,     \* Logger: what the file system has at this.folder
    console,    \* Logger: the entries written by console.log, in order
    nextMsg,    \* Logger: identity of the message of the next log call
    ipc,        \* Logger: position of the initialize() call
    cpc,        \* Logger: position of the close() call
    closeCalled \* Logger: history, close() has been called

\* The state of the ApiServer, of the parsePath call and of the Logger.
serverVars == <<stack, server, everClosed, nextCb, pc, req, idx, calls, res,
                changed, hook, closePromise, lastRegister>>
parseVars == <<pTemplate, pPath, pResult>>
loggerVars == <<logLevel, cache, writing, logPath, inflight, file, folder,
                console, nextMsg, ipc, cpc, closeCalled>>

vars == <<stack, server, everClosed, nextCb, pc, req, idx, calls, res,
          changed, hook, pTemplate, pPath, pResult,
          closePromise,
          lastRegister, loggerVars>>

(* ----------------------------- strings -------------------------------- *)
RECURSIVE StringsUpTo(_, _)
\* All strings over alphabet `chars` of length at most n.
StringsUpTo(chars, n) ==
    IF n = 0 THEN {<<>>}
    ELSE LET shorter == StringsUpTo(chars, n - 1)
         IN  shorter \cup {Append(s, c) : s \in shorter, c \in chars}

\* Index of the first "/" of s, or 0.
FirstSlash(s) ==
    IF \E i \in 1..Len(s) : s[i] = "/"
    THEN CHOOSE i \in 1..Len(s) : s[i] = "/" /\ \A j \in 1..(i - 1) : s[j] # "/"
    ELSE 0

RECURSIVE Split(_)
\* String.prototype.split("/"): "" gives [""], "/a" gives ["", "a"].
Split(s) ==
    LET i == FirstSlash(s)
    IN  IF i = 0 THEN <<s>>
        ELSE <<SubSeq(s, 1, i - 1)>> \o Split(SubSeq(s, i + 1, Len(s)))

\* templatePart.startsWith(":")
StartsWithColon(part) == Len(part) >= 1 /\ part[1] = ":"

\* Mutant of Substring1: the key keeps the colon.
SubstringWhole(part) == part

\* templatePart.substring(1, templatePart.length)
Substring1(part) == SubSeq(part, 2, Len(part))

(* ----------------------------- parsePath ------------------------------ *)
\* `undefined`, the no-match result of parsePath.
Undefined == [matched |-> FALSE, data |-> {}]

\* data[key] = value on a JavaScript object.
Assign(data, key, value) ==
    {p \in data : p[1] # key} \cup {<<key, value>>}

RECURSIVE ParseLoopWildcardNeedsPart(_, _, _, _)
\* Mutant of ParseLoop: the wildcard needs a path segment at its index.
ParseLoopWildcardNeedsPart(templateParts, pathParts, i, data) ==
    IF i > Len(templateParts) THEN [matched |-> TRUE, data |-> data]
    ELSE LET templatePart == templateParts[i]
             hasPathPart == i <= Len(pathParts)
         IN  IF StartsWithColon(templatePart)
             THEN IF ~hasPathPart THEN Undefined
                  ELSE ParseLoopWildcardNeedsPart(templateParts, pathParts, i + 1,
                           Assign(data, Substring1(templatePart), pathParts[i]))
             ELSE IF ~hasPathPart THEN Undefined
             ELSE IF templatePart = <<"*">>
             THEN [matched |-> TRUE, data |-> data]
             ELSE IF templatePart # pathParts[i] THEN Undefined
             ELSE ParseLoopWildcardNeedsPart(templateParts, pathParts, i + 1, data)

RECURSIVE ParseLoop(_, _, _, _)
\* The for loop of parsePath, from index i (1-based) with `data` so far.
\* pathParts[i] is undefined when i is past the end of pathParts.
ParseLoop(templateParts, pathParts, i, data) ==
    IF i > Len(templateParts) THEN [matched |-> TRUE, data |-> data]
    ELSE LET templatePart == templateParts[i]
             hasPathPart == i <= Len(pathParts)
         IN  IF StartsWithColon(templatePart)
             THEN IF ~hasPathPart THEN Undefined
                  ELSE ParseLoop(templateParts, pathParts, i + 1,
                                 Assign(data, Substring1(templatePart), pathParts[i]))
             ELSE IF templatePart = <<"*">>
             THEN [matched |-> TRUE, data |-> data]
             ELSE IF ~hasPathPart \/ templatePart # pathParts[i] THEN Undefined
             ELSE ParseLoop(templateParts, pathParts, i + 1, data)

parsePath(template, path) == ParseLoop(Split(template), Split(path), 1, {})

(* --------------------------- input domains ---------------------------- *)
\* Characters of the templates and of the request paths given to parsePath.
TemplateChars == {"/", "a", ":", "*"}
PathChars == {"/", "a", "b"}
AllTemplates == StringsUpTo(TemplateChars, MaxTemplateLen)
\* url.pathname always starts with "/".
AllPaths == {p \in StringsUpTo(PathChars, MaxPathLen) : Len(p) >= 1 /\ p[1] = "/"}

\* Templates registered, and methods and pathnames requested, in Spec.
Templates == { <<"/", "a">>, <<"/", ":", "a", "/", "*">>, <<"/", "b">> }
FilterMethods == {"*", "POST"}
RequestMethods == {"GET", "POST"}
Pathnames == { <<"/", "a">>, <<"/", "b", "/", "a">> }
Requests == DOMAIN pc

\* pResult before parsePath has been called.
Unparsed == [matched |-> FALSE, data |-> {<< <<"?">>, <<"?">> >>}]
NoRequest == [method |-> "", pathname |-> <<>>]
NoResponse == [statusCode |-> 200, ended |-> 0]

(* --------------------------- handler table ---------------------------- *)
\* Array.prototype.findIndex(handler => handler.path === path), 1-based; 0 is -1.
FindIndex(stk, path) ==
    IF \E i \in 1..Len(stk) : stk[i].path = path
    THEN CHOOSE i \in 1..Len(stk) :
            stk[i].path = path /\ \A j \in 1..(i - 1) : stk[j].path # path
    ELSE 0

\* Array.prototype.splice(start) with one argument, start 1-based: the array
\* that is left.
Splice(stk, start) == SubSeq(stk, 1, start - 1)

\* History: this.stack differs from what it was when handle() was entered.
MarkChanged(newStack) ==
    [d \in Requests |-> changed[d] \/ (pc[d] # "idle" /\ newStack # stack)]

\* Mutant of register: the entry is put in front of the table (unshift).
registerFirst(path, method) ==
    /\ nextCb <= MaxReg
    /\ IF server = "undefined"
       THEN /\ lastRegister' = "threw"
            /\ UNCHANGED <<stack, nextCb, changed>>
       ELSE /\ stack' = <<[path |-> path, method |-> method, callback |-> nextCb]>>
                            \o stack
            /\ nextCb' = nextCb + 1
            /\ changed' = MarkChanged(stack')
            /\ lastRegister' = "pushed"
    /\ UNCHANGED <<server, everClosed, pc, req, idx, calls, res, hook,
                   pTemplate, pPath, pResult, closePromise, loggerVars>>

\* Mutant of register: the entry is pushed whether or not a log is bound.
registerUnbound(path, method) ==
    /\ nextCb <= MaxReg
    /\ stack' = Append(stack, [path |-> path, method |-> method, callback |-> nextCb])
    /\ nextCb' = nextCb + 1
    /\ changed' = MarkChanged(stack')
    /\ lastRegister' = "pushed"
    /\ UNCHANGED <<server, everClosed, pc, req, idx, calls, res, hook,
                   pTemplate, pPath, pResult, closePromise, loggerVars>>

\* register(path, method, callback).  Line 27 calls this.log.trace(), and
\* this.log is bound by initialize(): before that the call throws a
\* TypeError to its caller and line 28 is not reached.
register(path, method) ==
    /\ nextCb <= MaxReg
    /\ IF server = "undefined"
       THEN /\ lastRegister' = "threw"
            /\ UNCHANGED <<stack, nextCb, changed>>
       ELSE /\ stack' = Append(stack,
                            [path |-> path, method |-> method, callback |-> nextCb])
            /\ nextCb' = nextCb + 1
            /\ changed' = MarkChanged(stack')
            /\ lastRegister' = "pushed"
    /\ UNCHANGED <<server, everClosed, pc, req, idx, calls, res, hook,
                   pTemplate, pPath, pResult, closePromise, loggerVars>>

\* unregister(path)
unregister(path) ==
    /\ LET handlerIndex == FindIndex(stack, path)
       IN  stack' = IF handlerIndex = 0 THEN stack ELSE Splice(stack, handlerIndex)
    /\ changed' = MarkChanged(stack')
    /\ UNCHANGED <<server, everClosed, nextCb, pc, req, idx, calls, res, hook,
                   pTemplate, pPath, pResult,
                   closePromise,
                   lastRegister, loggerVars>>

(* ----------------------------- dispatcher ----------------------------- *)
\* Mutant of MethodPasses: the method filter is not applied.
MethodIgnored(handler, method) == TRUE

\* The method filter of handle(): line 72 does not `continue`.
MethodPasses(handler, method) == handler.method = "*" \/ handler.method = method

RECURSIVE Traverse(_, _, _, _)
\* The for..of loop of handle() from iterator index i up to the next entry
\* whose callback is invoked; 0 when the iterator is exhausted first.
Traverse(stk, i, method, pathname) ==
    IF i > Len(stk) THEN 0
    ELSE IF ~MethodPasses(stk[i], method) THEN Traverse(stk, i + 1, method, pathname)
    ELSE IF parsePath(stk[i].path, pathname) = Undefined
         THEN Traverse(stk, i + 1, method, pathname)
    ELSE i

\* Mutant of Dispatch: the 404 is set but the response is not ended.
DispatchWithoutEnd(d, from, method, pathname, history) ==
    LET i == Traverse(stack, from, method, pathname)
    IN  IF i = 0
        THEN /\ pc' = [pc EXCEPT ![d] = "notfound"]
             /\ idx' = [idx EXCEPT ![d] = 0]
             /\ calls' = [calls EXCEPT ![d] = history]
             /\ res' = [res EXCEPT ![d] = [statusCode |-> 404, ended |-> @.ended]]
        ELSE /\ pc' = [pc EXCEPT ![d] = "awaiting"]
             /\ idx' = [idx EXCEPT ![d] = i]
             /\ calls' = [calls EXCEPT ![d] = Append(history,
                            [handler |-> stack[i],
                             pathData |-> parsePath(stack[i].path, pathname).data,
                             at |-> nextCb,
                             result |-> "pending"])]
             /\ UNCHANGED res

\* handle() from iterator index `from` until it suspends at `await` or ends
\* with the 404.
Dispatch(d, from, method, pathname, history) ==
    LET i == Traverse(stack, from, method, pathname)
    IN  IF i = 0
        THEN /\ pc' = [pc EXCEPT ![d] = "notfound"]
             /\ idx' = [idx EXCEPT ![d] = 0]
             /\ calls' = [calls EXCEPT ![d] = history]
             /\ res' = [res EXCEPT ![d] = [statusCode |-> 404, ended |-> @.ended + 1]]
        ELSE /\ pc' = [pc EXCEPT ![d] = "awaiting"]
             /\ idx' = [idx EXCEPT ![d] = i]
             /\ calls' = [calls EXCEPT ![d] = Append(history,
                            [handler |-> stack[i],
                             pathData |-> parsePath(stack[i].path, pathname).data,
                             at |-> nextCb,
                             result |-> "pending"])]
             /\ UNCHANGED res

\* The result of the pending (last) call of a history.
Settle(history, result) == [history EXCEPT ![Len(history)].result = result]

\* Mutant of Arrives: a request waits until no other dispatch is suspended.
ArrivesWhenQuiet(d) ==
    /\ pc[d] = "idle"
    /\ \A e \in 1..(d - 1) : pc[e] \notin {"idle", "awaiting"}
    /\ server \in {"listening", "closing"}

\* The transport emits 'request' for request d: requests are numbered in the
\* order of their arrival, and a transport that has stopped accepting still
\* serves the connections it has.
Arrives(d) ==
    /\ pc[d] = "idle"
    /\ \A e \in 1..(d - 1) : pc[e] # "idle"
    /\ server \in {"listening", "closing"}

\* The transport delivers a request: the listener of initialize() calls handle().
handle(d, method, pathname) ==
    /\ Arrives(d)
    /\ req' = [req EXCEPT ![d] = [method |-> method, pathname |-> pathname]]
    /\ Dispatch(d, 1, method, pathname, <<>>)
    /\ UNCHANGED <<stack, server, everClosed, nextCb, changed, hook,
                   pTemplate, pPath, pResult,
                   closePromise,
                   lastRegister, loggerVars>>

\* Mutant of resume: the loop goes on with the entry it has just invoked.
resumeSameEntry(d, canContinue) ==
    /\ pc[d] = "awaiting"
    /\ IF canContinue
       THEN Dispatch(d, idx[d], req[d].method, req[d].pathname,
                     Settle(calls[d], "truthy"))
       ELSE /\ pc' = [pc EXCEPT ![d] = "handled"]
            /\ calls' = [calls EXCEPT ![d] = Settle(calls[d], "falsy")]
            /\ idx' = [idx EXCEPT ![d] = 0]
            /\ UNCHANGED res
    /\ UNCHANGED <<stack, server, everClosed, nextCb, req, changed, hook,
                   pTemplate, pPath, pResult,
                   closePromise,
                   lastRegister, loggerVars>>

\* Mutant of resume: the loop goes on whatever the callback resolved to.
resumeWhateverResult(d, canContinue) ==
    /\ pc[d] = "awaiting"
    /\ Dispatch(d, idx[d] + 1, req[d].method, req[d].pathname,
                Settle(calls[d], IF canContinue THEN "truthy" ELSE "falsy"))
    /\ UNCHANGED <<stack, server, everClosed, nextCb, req, changed, hook,
                   pTemplate, pPath, pResult,
                   closePromise,
                   lastRegister, loggerVars>>

\* Mutant of resume: the loop goes over the table as it was when the awaited
\* callback was invoked (entries registered since then are not seen).
resumeOnSnapshot(d, canContinue) ==
    /\ pc[d] = "awaiting"
    /\ IF canContinue
       THEN LET at == calls[d][Len(calls[d])].at
                old == SelectSeq(stack, LAMBDA h : h.callback < at)
                i == Traverse(old, idx[d] + 1, req[d].method, req[d].pathname)
            IN  IF i = 0
                THEN /\ pc' = [pc EXCEPT ![d] = "notfound"]
                     /\ idx' = [idx EXCEPT ![d] = 0]
                     /\ calls' = [calls EXCEPT ![d] = Settle(calls[d], "truthy")]
                     /\ res' = [res EXCEPT ![d] =
                                   [statusCode |-> 404, ended |-> @.ended + 1]]
                ELSE /\ idx' = [idx EXCEPT ![d] = i]
                     /\ calls' = [calls EXCEPT ![d] =
                            Append(Settle(calls[d], "truthy"),
                                   [handler |-> old[i],
                                    pathData |-> parsePath(old[i].path, req[d].pathname).data,
                                    at |-> nextCb,
                                    result |-> "pending"])]
                     /\ UNCHANGED <<pc, res>>
       ELSE /\ pc' = [pc EXCEPT ![d] = "handled"]
            /\ calls' = [calls EXCEPT ![d] = Settle(calls[d], "falsy")]
            /\ idx' = [idx EXCEPT ![d] = 0]
            /\ UNCHANGED res
    /\ UNCHANGED <<stack, server, everClosed, nextCb, req, changed, hook,
                   pTemplate, pPath, pResult,
                   closePromise,
                   lastRegister, loggerVars>>

\* The awaited callback resolves to canContinue and handle() resumes.
resume(d, canContinue) ==
    /\ pc[d] = "awaiting"
    /\ IF canContinue
       THEN Dispatch(d, idx[d] + 1, req[d].method, req[d].pathname,
                     Settle(calls[d], "truthy"))
       ELSE /\ pc' = [pc EXCEPT ![d] = "handled"]
            /\ calls' = [calls EXCEPT ![d] = Settle(calls[d], "falsy")]
            /\ idx' = [idx EXCEPT ![d] = 0]
            /\ UNCHANGED res
    /\ UNCHANGED <<stack, server, everClosed, nextCb, req, changed, hook,
                   pTemplate, pPath, pResult,
                   closePromise,
                   lastRegister, loggerVars>>

\* The fault raised by the callback request d awaits.
FaultOf(d) == [request |-> d, callback |-> calls[d][Len(calls[d])].handler.callback]

\* Mutant of handleError: the fault is swallowed and the loop goes on.
handleErrorAndContinue(d) ==
    /\ pc[d] = "awaiting"
    /\ Dispatch(d, idx[d] + 1, req[d].method, req[d].pathname,
                Settle(calls[d], "fault"))
    /\ UNCHANGED <<stack, server, everClosed, nextCb, req, changed, hook,
                   pTemplate, pPath, pResult,
                   closePromise,
                   lastRegister, loggerVars>>

\* The awaited callback throws or rejects: handle() rejects at line 78 and
\* the .catch of initialize() calls handleError(err), which rethrows.
handleError(d) ==
    /\ pc[d] = "awaiting"
    /\ pc' = [pc EXCEPT ![d] = "faulted"]
    /\ calls' = [calls EXCEPT ![d] = Settle(calls[d], "fault")]
    /\ idx' = [idx EXCEPT ![d] = 0]
    /\ hook' = Append(hook, FaultOf(d))
    /\ UNCHANGED <<stack, server, everClosed, nextCb, req, res,
                   changed, pTemplate, pPath, pResult,
                   closePromise,
                   lastRegister, loggerVars>>

(* ----------------------------- lifecycle ------------------------------ *)
\* initialize(log): binds this.log and replaces this.server by a new transport.
\* A close() promise that is still pending stays with the replaced transport:
\* that one calls back when it has drained, if it was closing, and never if it
\* had been started again.
initialize ==
    /\ server' = "created"
    /\ closePromise' = IF closePromise.state = "pending"
                       THEN [closePromise EXCEPT !.state =
                                IF server = "closing" THEN "draining" ELSE "stuck"]
                       ELSE closePromise
    /\ UNCHANGED <<stack, everClosed, nextCb, pc, req, idx, calls, res, changed,
                   hook, pTemplate, pPath, pResult,
                   lastRegister, loggerVars>>

\* Mutant of start: listening is entered whatever the state of this.server.
startAnyway ==
    /\ server' = "listening"
    /\ UNCHANGED <<stack, everClosed, nextCb, pc, req, idx, calls, res,
                   changed, hook, pTemplate, pPath, pResult,
                   closePromise,
                   lastRegister, loggerVars>>

\* start(): this.server.listen().  Without a server the executor throws, and
\* listen() on a listening server throws: the promise rejects, nothing changes.
\* A server that is not listening (never started, or closed) starts to listen.
start ==
    /\ server' = IF server \in {"created", "closing", "closed"} THEN "listening"
                 ELSE server
    /\ UNCHANGED <<stack, everClosed, nextCb, pc, req, idx, calls, res,
                   changed, hook, pTemplate, pPath, pResult,
                   closePromise,
                   lastRegister, loggerVars>>

\* The promise close() returns, before and after its one settlement.
NoPromise == [state |-> "none", settled |-> 0]
Pending == [state |-> "pending", settled |-> 0]
Settled(promise, outcome) == [state |-> outcome, settled |-> promise.settled + 1]

\* Mutant of close: an error of the transport is handed to handleError and
\* the promise resolves.
closeHooksError ==
    /\ server' = IF server = "listening" THEN "closing" ELSE server
    /\ closePromise' = IF server = "listening" THEN Pending
                       ELSE Settled(Pending, "resolved")
    /\ hook' = IF server = "listening" THEN hook
               ELSE Append(hook, [request |-> 0, callback |-> 0])
    /\ UNCHANGED <<stack, everClosed, nextCb, pc, req, idx, calls, res,
                   changed, pTemplate, pPath, pResult,
                   lastRegister, loggerVars>>

\* Mutant of close: closing aborts the suspended dispatches with a 404.
closeCancelsDispatch ==
    /\ server' = IF server = "listening" THEN "closing" ELSE server
    /\ closePromise' = IF server = "listening" THEN Pending
                       ELSE Settled(Pending, "rejected")
    /\ pc' = [d \in Requests |-> IF pc[d] = "awaiting" THEN "notfound" ELSE pc[d]]
    /\ idx' = [d \in Requests |-> IF pc[d] = "awaiting" THEN 0 ELSE idx[d]]
    /\ res' = [d \in Requests |-> IF pc[d] = "awaiting"
                                  THEN [statusCode |-> 404, ended |-> res[d].ended + 1]
                                  ELSE res[d]]
    /\ UNCHANGED <<stack, everClosed, nextCb, req, calls,
                   changed, hook, pTemplate, pPath, pResult,
                   lastRegister, loggerVars>>

\* close(): this.server.close(cb) stops a listening server from accepting and
\* calls back later.  On a server that is not listening the transport calls
\* back with ERR_SERVER_NOT_RUNNING, and without a server the executor
\* throws: the promise rejects and nothing else changes.
close ==
    /\ server' = IF server = "listening" THEN "closing" ELSE server
    /\ closePromise' = IF server = "listening" THEN Pending
                       ELSE Settled(Pending, "rejected")
    /\ UNCHANGED <<stack, everClosed, nextCb, pc, req, idx, calls, res,
                   changed, hook, pTemplate, pPath, pResult,
                   lastRegister, loggerVars>>

\* The callback of this.server.close() without error: the promise resolves.
closeResolved ==
    /\ server = "closing"
    /\ server' = "closed"
    /\ everClosed' = TRUE
    /\ closePromise' = IF closePromise.state = "pending"
                       THEN Settled(closePromise, "resolved") ELSE closePromise
    /\ UNCHANGED <<stack, nextCb, pc, req, idx, calls, res, changed,
                   hook, pTemplate, pPath, pResult,
                   lastRegister, loggerVars>>

\* The same callback from a transport that initialize() has replaced.
orphanClosed ==
    /\ closePromise.state = "draining"
    /\ closePromise' = Settled(closePromise, "resolved")
    /\ everClosed' = TRUE
    /\ UNCHANGED <<stack, server, nextCb, pc, req, idx, calls, res, changed,
                   hook, pTemplate, pPath, pResult,
                   lastRegister, loggerVars>>

(* ------------------------------- Logger ------------------------------- *)
\* Logger (logger.js).  A log entry is the message and its level (namespace
\* and date do not matter here).  FSUtils is the file-system helper of the
\* repository: exists() answers at once, isFolder(), createFolder() and
\* append() complete in a later job.  initialize() and close() are followed
\* one call at a time; the folder, once it is there, stays.
LogLevels == 0..2

\* A field that has never been assigned reads as undefined, and a relational
\* comparison with undefined is false.
Unassigned == [defined |-> FALSE, value |-> 0]
JsLess(field, n) == field.defined /\ field.value < n

\* this.log_level: no line of the class assigns it.
log_level == Unassigned

\* Mutant of WriteCache: the guard `this.writing` is missing.
WriteCacheWhileWriting(c, w, p, fl) ==
    IF p = "undefined" \/ c = <<>>
    THEN cache' = c /\ writing' = w /\ inflight' = fl
    ELSE cache' = <<>> /\ writing' = TRUE /\ inflight' = Append(fl, c)

\* writeCache(path) up to its await, called with this.cache = c,
\* this.writing = w, path = p and the appends fl in flight.
WriteCache(c, w, p, fl) ==
    IF w \/ p = "undefined" \/ c = <<>>
    THEN cache' = c /\ writing' = w /\ inflight' = fl
    ELSE cache' = <<>> /\ writing' = TRUE /\ inflight' = Append(fl, c)

\* log(message, {level}): logToConsole, then logToFile.
Log(level) ==
    LET entry == [message |-> nextMsg, level |-> level]
    IN  /\ console' = Append(console, entry)
        /\ WriteCache(Append(cache, entry), writing, logPath, inflight)

\* info(message); warn, error and fatal are the same but for the level.
info ==
    /\ nextMsg <= MaxLog
    /\ nextMsg' = nextMsg + 1
    /\ Log("info")
    /\ UNCHANGED <<serverVars, parseVars, logLevel, logPath, file, folder, ipc, cpc, closeCalled>>

\* debug(message)
debug ==
    /\ nextMsg <= MaxLog
    /\ nextMsg' = nextMsg + 1
    /\ IF logLevel < 1
       THEN UNCHANGED <<console, cache, writing, inflight>>
       ELSE Log("debug")
    /\ UNCHANGED <<serverVars, parseVars, logLevel, logPath, file, folder, ipc, cpc, closeCalled>>

\* trace(message): the guard reads this.log_level.
trace ==
    /\ nextMsg <= MaxLog
    /\ nextMsg' = nextMsg + 1
    /\ IF JsLess(log_level, 2)
       THEN UNCHANGED <<console, cache, writing, inflight>>
       ELSE Log("trace")
    /\ UNCHANGED <<serverVars, parseVars, logLevel, logPath, file, folder, ipc, cpc, closeCalled>>

\* The sequence s without its k-th element.
Without(s, k) == SubSeq(s, 1, k - 1) \o SubSeq(s, k + 1, Len(s))

\* Mutant of appendDone: the cache is not looked at again.
appendDoneNoFollowUp(k) ==
    /\ k \in 1..Len(inflight)
    /\ file' = file \o inflight[k]
    /\ writing' = FALSE
    /\ inflight' = Without(inflight, k)
    /\ UNCHANGED <<serverVars, parseVars, logLevel, cache, logPath, folder, console,
                   nextMsg, ipc, cpc, closeCalled>>

\* FSUtils.append completes and writeCache() resumes: the text is in the
\* file, this.writing is reset and a cache that is not empty is written next.
appendDone(k) ==
    /\ k \in 1..Len(inflight)
    /\ file' = file \o inflight[k]
    /\ WriteCache(cache, FALSE, logPath, Without(inflight, k))
    /\ UNCHANGED <<serverVars, parseVars, logLevel, logPath, folder, console,
                   nextMsg, ipc, cpc, closeCalled>>

\* Where a call waits that has found this.folder missing or present.
FolderStep == IF folder = "missing" THEN "createFolder" ELSE "isFolder"

\* initialize({logLevel}) up to its first await: this.path is set at line 66.
loggerInitialize(level) ==
    /\ ipc = "idle"
    /\ logLevel' = level
    /\ logPath' = "set"
    /\ ipc' = FolderStep
    /\ UNCHANGED <<serverVars, parseVars, cache, writing, inflight, file, folder,
                   console, nextMsg, cpc, closeCalled>>

\* isFolder() or createFolder() completes and initialize() resumes.
initializeResumes ==
    /\ ipc # "idle"
    /\ ipc' = "idle"
    /\ folder' = "folder"
    /\ WriteCache(cache, writing, logPath, inflight)
    /\ UNCHANGED <<serverVars, parseVars, logLevel, logPath, file, console,
                   nextMsg, cpc, closeCalled>>

\* close() up to its first await.
loggerClose ==
    /\ cpc = "idle"
    /\ closeCalled' = TRUE
    /\ IF cache = <<>> \/ writing
       THEN UNCHANGED <<cache, writing, inflight, cpc>>
       ELSE IF logPath # "undefined"
       THEN WriteCache(cache, writing, logPath, inflight) /\ UNCHANGED cpc
       ELSE cpc' = FolderStep /\ UNCHANGED <<cache, writing, inflight>>
    /\ UNCHANGED <<serverVars, parseVars, logLevel, logPath, file, folder,
                   console, nextMsg, ipc>>

\* isFolder() or createFolder() completes and close() resumes: this.path is
\* set at line 95 and writeCache({path}) gets an argument that is not undefined.
closeResumes ==
    /\ cpc # "idle"
    /\ cpc' = "idle"
    /\ folder' = "folder"
    /\ logPath' = "set"
    /\ WriteCache(cache, writing, "set", inflight)
    /\ UNCHANGED <<serverVars, parseVars, logLevel, file, console, nextMsg, ipc, closeCalled>>

\* The logger after `new Logger({logLevel})`.
InitLogger ==
    /\ logLevel \in LogLevels
    /\ cache = <<>>
    /\ writing = FALSE
    /\ logPath = "undefined"
    /\ inflight = <<>>
    /\ file = <<>>
    /\ folder \in {"missing", "folder"}
    /\ console = <<>>
    /\ nextMsg = 1
    /\ ipc = "idle"
    /\ cpc = "idle"
    /\ closeCalled = FALSE

\* No logger under observation.
InitNoLogger ==
    /\ logLevel = 0
    /\ cache = <<>>
    /\ writing = FALSE
    /\ logPath = "undefined"
    /\ inflight = <<>>
    /\ file = <<>>
    /\ folder = "missing"
    /\ console = <<>>
    /\ nextMsg = 1
    /\ ipc = "idle"
    /\ cpc = "idle"
    /\ closeCalled = FALSE

(* --------------------------- specifications --------------------------- *)
\* The server after `new ApiServer()`, with n requests yet to arrive.
InitServer(n) ==
    /\ stack = <<>>
    /\ server = "undefined"
    /\ everClosed = FALSE
    /\ nextCb = 1
    /\ pc = [d \in 1..n |-> "idle"]
    /\ req = [d \in 1..n |-> NoRequest]
    /\ idx = [d \in 1..n |-> 0]
    /\ calls = [d \in 1..n |-> <<>>]
    /\ res = [d \in 1..n |-> NoResponse]
    /\ changed = [d \in 1..n |-> FALSE]
    /\ hook = <<>>
    /\ closePromise = NoPromise
    /\ lastRegister = "none"

\* No parsePath call under observation.
InitNoParse ==
    /\ pTemplate = <<>>
    /\ pPath = <<"/">>
    /\ pResult = Unparsed

Init == InitServer(NumReq) /\ InitNoParse /\ InitNoLogger

Next ==
    \/ \E path \in Templates, method \in FilterMethods : register(path, method)
    \/ \E path \in Templates : unregister(path)
    \/ \E d \in Requests, method \in RequestMethods, pathname \in Pathnames :
          handle(d, method, pathname)
    \/ \E d \in Requests, canContinue \in BOOLEAN : resume(d, canContinue)
    \/ \E d \in Requests : handleError(d)
    \/ initialize
    \/ start
    \/ close
    \/ closeResolved
    \/ orphanClosed

Spec == Init /\ [][Next]_vars

\* Concurrent requests to a server that is not closed during the run.
InitTwo == InitServer(NumReqTwo) /\ InitNoParse /\ InitNoLogger

NextTwo ==
    \/ \E path \in Templates, method \in FilterMethods :
          nextCb <= MaxRegTwo /\ register(path, method)
    \/ \E path \in Templates : unregister(path)
    \/ \E d \in Requests, method \in RequestMethods, pathname \in Pathnames :
          handle(d, method, pathname)
    \/ \E d \in Requests, canContinue \in BOOLEAN : resume(d, canContinue)
    \/ \E d \in Requests : handleError(d)
    \/ initialize
    \/ start

SpecTwo == InitTwo /\ [][NextTwo]_vars

\* The logger on its own: log calls, initialize(), close() and the
\* completions of the file system in any order.
InitLoggerOnly == InitServer(NumReq) /\ InitNoParse /\ InitLogger

NextLogger ==
    \/ info
    \/ debug
    \/ trace
    \/ \E k \in 1..Len(inflight) : appendDone(k)
    \/ \E level \in LogLevels : loggerInitialize(level)
    \/ initializeResumes
    \/ loggerClose
    \/ closeResumes

SpecLogger == InitLoggerOnly /\ [][NextLogger]_vars

\* The same with every operation of the file system completing: an append
\* in flight completes, and an initialize() or close() that waits for the
\* folder check or creation resumes.
SpecLoggerFair ==
    /\ InitLoggerOnly
    /\ [][NextLogger]_vars
    /\ WF_vars(\E k \in 1..Len(inflight) : appendDone(k))
    /\ WF_vars(initializeResumes)
    /\ WF_vars(closeResumes)

\* parsePath as a pure function: any template against any pathname.
InitParse ==
    /\ InitServer(NumReq)
    /\ InitNoLogger
    /\ pTemplate \in AllTemplates
    /\ pPath \in AllPaths
    /\ pResult = Unparsed

CallParsePath ==
    /\ pResult = Unparsed
    /\ pResult' = parsePath(pTemplate, pPath)
    /\ UNCHANGED <<stack, server, everClosed, nextCb, pc, req, idx, calls,
                   res, changed, hook, pTemplate, pPath,
                   closePromise,
                   lastRegister, loggerVars>>

NextParse == CallParsePath

SpecParse == InitParse /\ [][NextParse]_vars

(* ------------------------- claims: vocabulary ------------------------- *)
\* A ':name' segment of a template, and the name it declares.
IsNamed(segment) == Len(segment) >= 1 /\ Head(segment) = ":"
NameOf(segment) == Tail(segment)

\* The entry's method filter admits the method and the path matcher reports
\* a match of its template against the pathname.
Matches(handler, request) ==
    /\ handler.method = "*" \/ handler.method = request.method
    /\ parsePath(handler.path, request.pathname).matched

\* Indices of the ':name' segments of a template before its wildcard, if any.
NamedBeforeWildcard(templateParts) ==
    {i \in 1..Len(templateParts) :
        IsNamed(templateParts[i]) /\ \A j \in 1..(i - 1) : templateParts[j] # <<"*">>}

\* The named-parameter values of a pathname, extracted positionally.
Positional(template, pathname) ==
    LET templateParts == Split(template)
        pathParts == Split(pathname)
    IN  { <<NameOf(templateParts[i]), pathParts[i]>> :
            i \in NamedBeforeWildcard(templateParts) \cap (1..Len(pathParts)) }

\* Number of invocations of an entry's callback in the dispatch of request d.
Invocations(d, handler) ==
    Cardinality({k \in 1..Len(calls[d]) : calls[d][k].handler = handler})

\* The table without the first entry whose template is `path`.
WithoutFirst(stk, path) ==
    IF \E i \in 1..Len(stk) : stk[i].path = path
    THEN LET first == CHOOSE i \in 1..Len(stk) :
                         stk[i].path = path /\ \A j \in 1..(i - 1) : stk[j].path # path
         IN  SubSeq(stk, 1, first - 1) \o SubSeq(stk, first + 1, Len(stk))
    ELSE stk

(* -------------------------------- C1 ---------------------------------- *)
\* C1: unregister(t) removes exactly the first entry whose template equals t
\* and leaves every other entry, those registered after it included, in the
\* table in the original relative order.
C1_UnregisterRemovesOneEntry ==
    [][\A t \in Templates : unregister(t) => stack' = WithoutFirst(stack, t)]_vars

(* -------------------------------- C2 ---------------------------------- *)
\* C2 as stated: one handle() call invokes the callback of every entry whose
\* method filter and template match the request exactly once.  Stated of a
\* finished dispatch whose table has not been changed.
C2_EveryMatchingEntryInvokedOnce ==
    \A d \in Requests :
        (pc[d] \in {"handled", "notfound"} /\ ~changed[d])
        => \A i \in 1..Len(stack) :
              Matches(stack[i], req[d]) => Invocations(d, stack[i]) = 1

\* Request d has reached table position i: every matching entry before it has
\* been invoked and resolved truthy.
Reached(d, i) ==
    \A j \in 1..(i - 1) :
        Matches(stack[j], req[d])
        => \E k \in 1..Len(calls[d]) :
              calls[d][k].handler = stack[j] /\ calls[d][k].result = "truthy"

\* What one handle() call has done for request d.
InvokedOnceWithParams(d) ==
    /\ \A k \in 1..Len(calls[d]) :
          /\ Invocations(d, calls[d][k].handler) = 1
          /\ Matches(calls[d][k].handler, req[d])
          /\ calls[d][k].pathData = Positional(calls[d][k].handler.path, req[d].pathname)
    /\ (pc[d] # "idle" /\ ~changed[d])
       => \A i \in 1..Len(stack) :
             (Matches(stack[i], req[d]) /\ Reached(d, i))
             => Invocations(d, stack[i]) = 1

\* C2 amended: one handle() call invokes an entry's callback at most once, only
\* if the entry matches the request, and with exactly the named-parameter values
\* extracted positionally; it invokes it exactly once if the table is not
\* changed during the dispatch and every matching entry registered before it
\* has resolved truthy.
C2_MatchingEntryInvokedOnceUntilStop ==
    \A d \in Requests : InvokedOnceWithParams(d)

\* A dispatch of an unchanged table has invoked two entries, the second after
\* the first resolved truthy, with a named parameter extracted.
C2_Witness ==
    \E d \in Requests :
        /\ ~changed[d]
        /\ Len(calls[d]) >= 2
        /\ calls[d][1].result = "truthy"
        /\ calls[d][2].pathData # {}

(* -------------------------------- C3 ---------------------------------- *)
\* C3: once an invoked callback has resolved falsy it stays the last callback
\* invoked for that request, the dispatch is in state "handled" and the
\* dispatcher has written no 404 and has not ended the response.
C3_FalsyStopsDispatch ==
    \A d \in Requests : \A k \in 1..Len(calls[d]) :
        calls[d][k].result = "falsy"
        => /\ k = Len(calls[d])
           /\ pc[d] = "handled"
           /\ res[d].statusCode # 404
           /\ res[d].ended = 0

\* A callback resolved falsy although a later table entry matches the request.
C3_Witness ==
    \E d \in Requests :
        /\ pc[d] = "handled"
        /\ \E i \in 1..Len(stack) :
              /\ stack[i] = calls[d][Len(calls[d])].handler
              /\ \E j \in (i + 1)..Len(stack) : Matches(stack[j], req[d])

(* -------------------------------- C4 ---------------------------------- *)
\* The step in which the callback awaited for request d resolves truthy.
ResolvesTruthy(d) ==
    /\ pc[d] = "awaiting"
    /\ calls'[d] # calls[d]
    /\ calls'[d][Len(calls[d])].result = "truthy"

\* Table positions of the matching entries registered later than `handler`.
LaterRegistered(d, handler) ==
    {i \in 1..Len(stack) :
        stack[i].callback > handler.callback /\ Matches(stack[i], req[d])}

\* The next callback invoked for d is that of the next later-registered
\* matching entry; none is invoked if there is no such entry.
NextIsNextLaterRegistered(d) ==
    LET n == Len(calls[d])
        later == LaterRegistered(d, calls[d][n].handler)
    IN  IF later = {} THEN Len(calls'[d]) = n
        ELSE /\ Len(calls'[d]) = n + 1
             /\ \E i \in later :
                   /\ \A j \in later : stack[i].callback <= stack[j].callback
                   /\ calls'[d][n + 1].handler = stack[i]

\* C4 as stated: when a callback resolves truthy, the next callback invoked is
\* that of the next later-registered entry whose method filter and template
\* match.
C4_NextInvokedIsNextLaterRegistered ==
    [][\A d \in Requests : ResolvesTruthy(d) => NextIsNextLaterRegistered(d)]_vars

\* The next callback invoked for d is that of the first matching entry at a
\* table position after that of the awaited entry, in the table as it is now.
NextIsNextPosition(d) ==
    LET n == Len(calls[d])
    IN  IF pc'[d] = "awaiting"
        THEN /\ Len(calls'[d]) = n + 1
             /\ idx'[d] > idx[d] /\ idx'[d] <= Len(stack)
             /\ calls'[d][n + 1].handler = stack[idx'[d]]
             /\ \A j \in (idx[d] + 1)..(idx'[d] - 1) : ~Matches(stack[j], req[d])
        ELSE /\ Len(calls'[d]) = n
             /\ \A j \in (idx[d] + 1)..Len(stack) : ~Matches(stack[j], req[d])

\* The callbacks of one dispatch were invoked in registration order, each
\* after the previous one had resolved.
InRegistrationOrder(d) ==
    \A k \in 1..(Len(calls[d]) - 1) :
        /\ calls[d][k].handler.callback < calls[d][k + 1].handler.callback
        /\ calls[d][k].result # "pending"

\* C4 amended: register appends at the end of the table; within one dispatch
\* callbacks are invoked in registration order, each only after the previous
\* one has resolved; when a callback resolves truthy the next callback invoked
\* is that of the next matching entry at a later position of the table as it
\* is at that moment, which is the next later-registered matching entry if the
\* table was not changed during the dispatch.
C4_InvokedInTableOrder ==
    [][/\ Len(stack') > Len(stack) => SubSeq(stack', 1, Len(stack)) = stack
       /\ \A d \in Requests :
            /\ calls'[d] # calls[d] => InRegistrationOrder(d)'
            /\ ResolvesTruthy(d)
               => /\ NextIsNextPosition(d)
                  /\ ~changed[d] => NextIsNextLaterRegistered(d)]_vars

\* Two callbacks were invoked for a request, with an entry between them in
\* the table that does not match the request.
C4_Witness ==
    \E d \in Requests :
        /\ Len(calls[d]) >= 2
        /\ \E i, j, k \in 1..Len(stack) :
              /\ i < j /\ j < k
              /\ stack[i] = calls[d][1].handler
              /\ stack[k] = calls[d][2].handler
              /\ ~Matches(stack[j], req[d])

(* -------------------------------- C5 ---------------------------------- *)
\* Some callback invoked for request d resolved falsy.
SomeFalsy(d) == \E k \in 1..Len(calls[d]) : calls[d][k].result = "falsy"

\* C5: a dispatch whose callbacks all resolved without fault has set status
\* 404 and ended the response, exactly once, if and only if no invoked callback
\* resolved falsy; otherwise, and while it is suspended, the dispatcher has
\* written nothing.
C5_NotFoundIffNoFalsy ==
    \A d \in Requests :
        /\ pc[d] \in {"handled", "notfound"}
           => /\ (res[d].statusCode = 404 /\ res[d].ended = 1) <=> ~SomeFalsy(d)
              /\ SomeFalsy(d) => (res[d].statusCode # 404 /\ res[d].ended = 0)
        /\ pc[d] \in {"idle", "awaiting"}
           => (res[d].statusCode # 404 /\ res[d].ended = 0)

\* Every matching callback resolved truthy and the dispatcher wrote the 404.
C5_Witness ==
    \E d \in Requests :
        /\ pc[d] = "notfound"
        /\ Len(calls[d]) >= 1
        /\ \A k \in 1..Len(calls[d]) : calls[d][k].result = "truthy"
        /\ res[d] = [statusCode |-> 404, ended |-> 1]

(* -------------------------------- C6 ---------------------------------- *)
\* C6: a callback is invoked for a request only if its entry's method filter
\* is "*" or the request's method and parsePath matches its template against
\* the pathname; a request that matches no entry of the table invokes no
\* callback and is completed with 404.
C6_OnlyMatchingEntriesInvoked ==
    \A d \in Requests :
        /\ \A k \in 1..Len(calls[d]) :
              /\ calls[d][k].handler.method \in {"*", req[d].method}
              /\ parsePath(calls[d][k].handler.path, req[d].pathname) # Undefined
        /\ (pc[d] # "idle" /\ ~changed[d]
            /\ \A i \in 1..Len(stack) : ~Matches(stack[i], req[d]))
           => /\ calls[d] = <<>>
              /\ pc[d] = "notfound"
              /\ res[d] = [statusCode |-> 404, ended |-> 1]

\* A request was completed with 404 without any callback invoked, although
\* the template of an entry matches its pathname: the method filter differs.
C6_Witness ==
    \E d \in Requests :
        /\ pc[d] = "notfound"
        /\ calls[d] = <<>>
        /\ ~changed[d]
        /\ \E i \in 1..Len(stack) :
              /\ parsePath(stack[i].path, req[d].pathname).matched
              /\ stack[i].method \notin {"*", req[d].method}

(* -------------------------------- C7 ---------------------------------- *)
\* The template has no wildcard segment.
NoWildcard(templateParts) ==
    \A i \in 1..Len(templateParts) : templateParts[i] # <<"*">>

\* C7: for a template without a wildcard segment parsePath reports no-match
\* whenever the template and the path differ in their number of segments.
C7_SegmentCountsMustAgree ==
    (/\ pResult # Unparsed
     /\ NoWildcard(Split(pTemplate))
     /\ Len(Split(pTemplate)) # Len(Split(pPath)))
    => ~pResult.matched

(* -------------------------------- C8 ---------------------------------- *)
\* The template has the form prefix/*: its last segment, and no other, is "*".
IsPrefixWildcard(templateParts) ==
    /\ Len(templateParts) >= 2
    /\ templateParts[Len(templateParts)] = <<"*">>
    /\ NoWildcard(SubSeq(templateParts, 1, Len(templateParts) - 1))

\* The leading segments of the path equal, or bind to the named parameters
\* of, the segments of the prefix.
LeadsWith(prefixParts, pathParts) ==
    \A i \in 1..Len(prefixParts) :
        /\ i <= Len(pathParts)
        /\ IsNamed(prefixParts[i]) \/ prefixParts[i] = pathParts[i]

\* C8: a template prefix/* matches exactly the paths whose leading segments
\* equal (or bind to the named parameters of) the prefix, whatever follows,
\* and the parameter map holds only the parameters named before the wildcard.
C8_WildcardMatchesPrefix ==
    LET templateParts == Split(pTemplate)
        prefixParts == SubSeq(templateParts, 1, Len(templateParts) - 1)
    IN  (pResult # Unparsed /\ IsPrefixWildcard(templateParts))
        => /\ pResult.matched <=> LeadsWith(prefixParts, Split(pPath))
           /\ pResult.matched
              => {p[1] : p \in pResult.data}
                    = {NameOf(prefixParts[i]) : i \in NamedBeforeWildcard(prefixParts)}

\* A template prefix/* with a named parameter matched the path that is exactly
\* the prefix, with no segment left for the wildcard.
C8_Witness ==
    /\ pResult.matched
    /\ IsPrefixWildcard(Split(pTemplate))
    /\ Len(Split(pPath)) = Len(Split(pTemplate)) - 1
    /\ pResult.data # {}

(* -------------------------------- C9 ---------------------------------- *)
\* The parameter names of the template are unique.
UniqueNames(templateParts) ==
    \A i, j \in NamedBeforeWildcard(templateParts) :
        i # j => NameOf(templateParts[i]) # NameOf(templateParts[j])

\* C9: when parsePath matches, the keys of the parameter map are exactly the
\* names of the template's ':name' segments before the wildcard, each mapped
\* to the request segment at the same index, unchanged, the empty string
\* included; a path without a segment at the index of a named parameter is
\* not matched.  Parameter names are unique per template.
C9_ParametersArePositional ==
    LET templateParts == Split(pTemplate)
        pathParts == Split(pPath)
        named == NamedBeforeWildcard(templateParts)
    IN  (pResult # Unparsed /\ UniqueNames(templateParts))
        => /\ pResult.matched
              => pResult.data = {<<NameOf(templateParts[i]), pathParts[i]>> : i \in named}
           /\ (\E i \in named : i > Len(pathParts)) => ~pResult.matched

\* Two named parameters were extracted, one of them the empty string.
C9_Witness ==
    /\ pResult.matched
    /\ Cardinality(pResult.data) = 2
    /\ \E p \in pResult.data : p[2] = <<>>

(* -------------------------------- C10 --------------------------------- *)
\* C10 as stated: once a close() has resolved, the server is never Listening
\* again.
C10_ClosedIsTerminal == everClosed => server # "listening"

\* C10 amended: the server becomes Listening only by start() on a transport
\* that initialize() has created and that is not listening; start() before
\* initialize() changes nothing, and Uninitialized is never entered again;
\* Closed is entered only when a close() of a listening server resolves.
\* Closed is not terminal: a later start(), directly or after another
\* initialize(), makes the server Listening again.
C10_ListeningOnlyByStart ==
    [][/\ (server' = "listening" /\ server # "listening")
          => server \in {"created", "closing", "closed"}
       /\ server = "undefined" => server' \in {"undefined", "created"}
       /\ server' = "undefined" => server = "undefined"
       /\ (server' = "closed" /\ server # "closed") => server = "closing"
       /\ everClosed => everClosed']_vars

\* The server is Listening again after a close() has resolved.
C10_Witness == everClosed /\ server = "listening"

(* ------------------------------ claim C11 ----------------------------- *)
\* The entries of the fault hook's history that belong to request d.
HookedFor(d) == {k \in 1..Len(hook) : hook[k].request = d}

\* C11: a fault raised by a callback is not caught by the dispatcher.  The
\* faulting invocation is the last one of its request (no later entry is
\* tried), the response of a faulted request is untouched (no 404, not
\* ended), and handleError has been invoked exactly once with that fault;
\* for any other request, one that got the 404 included, handleError has
\* not been invoked at all.
C11_FaultGoesToHookOnce ==
    \A d \in Requests :
        /\ \A k \in 1..Len(calls[d]) :
               calls[d][k].result = "fault"
                   => k = Len(calls[d]) /\ pc[d] = "faulted"
        /\ pc[d] = "faulted"
               => /\ calls[d] # <<>>
                  /\ calls[d][Len(calls[d])].result = "fault"
                  /\ res[d] = NoResponse
                  /\ Cardinality(HookedFor(d)) = 1
                  /\ \A k \in HookedFor(d) : hook[k] = FaultOf(d)
        /\ pc[d] # "faulted" => HookedFor(d) = {}

\* A second callback has faulted while a later matching entry is in the table.
C11_Witness ==
    \E d \in Requests :
        /\ pc[d] = "faulted"
        /\ Len(calls[d]) = 2
        /\ \E i \in 1..Len(stack) :
               Matches(stack[i], req[d]) /\ Invocations(d, stack[i]) = 0

(* ------------------------------ claim C12 ----------------------------- *)
\* The close() promise is settled with `outcome` in this step.
Becomes(outcome) == closePromise' # closePromise /\ closePromise'.state = outcome

\* C12: close() fails exactly when the transport reports an error on
\* closing (it is not listening), and then handleError is not invoked; it
\* resolves when the transport has closed without error; either way the
\* promise is settled once.
C12_CloseSettlesOnce ==
    [][ /\ Becomes("rejected")
            => /\ server # "listening"
               /\ closePromise'.settled = 1
               /\ UNCHANGED <<hook, server>>
        /\ Becomes("pending") => server = "listening" /\ server' = "closing"
        /\ Becomes("resolved")
            => /\ \/ closePromise.state = "pending" /\ server = "closing" /\ server' = "closed"
                  \/ closePromise.state = "draining"
               /\ closePromise'.settled = 1
               /\ UNCHANGED hook
        /\ (closePromise.state = "pending" /\ server = "closing" /\ server' = "closed")
            => Becomes("resolved")
        /\ closePromise'.settled = IF closePromise'.state \in {"resolved", "rejected"}
                                   THEN 1 ELSE 0
      ]_vars

\* One close() has resolved, and a later close() of the closed server has
\* failed without the fault hook being invoked.
C12_Witness ==
    everClosed /\ server = "closed" /\ closePromise.state = "rejected" /\ hook = <<>>

(* ------------------------------ claim C13 ----------------------------- *)
\* Request e is the next one the transport delivers.
NextToArrive(e) == pc[e] = "idle" /\ \A f \in 1..(e - 1) : pc[f] # "idle"

\* What the dispatch of request d has done so far.
DispatchOf(d) == <<pc[d], req[d], idx[d], calls[d], res[d]>>

\* C13: a dispatch suspended at a callback does not hold back another
\* request.  While request d awaits a callback, the transport can hand the
\* next request to handle(), and a request that awaits a callback of its own
\* can be resumed or faulted by it; each such step leaves the suspended
\* dispatch of d as it is.
C13_SuspendedDispatchBlocksNoOther ==
    /\ [](\A d, e \in Requests :
            (d # e /\ pc[d] = "awaiting" /\ server = "listening")
                => /\ NextToArrive(e) => Arrives(e)
                   /\ pc[e] = "awaiting"
                       => ENABLED resume(e, FALSE) /\ ENABLED handleError(e))
    /\ [][\A d, e \in Requests :
            (d # e /\ pc[d] = "awaiting" /\ DispatchOf(e)' # DispatchOf(e))
                => DispatchOf(d)' = DispatchOf(d)]_vars

\* The first request still awaits its first callback; the second request,
\* which arrived later, has had a callback invoked and has ended (handled
\* or 404).
C13_Witness ==
    /\ pc[1] = "awaiting" /\ Len(calls[1]) = 1
    /\ 2 \in Requests
    /\ pc[2] \in {"handled", "notfound"}
    /\ calls[2] # <<>>

(* ------------------------------ claim C17 ----------------------------- *)
\* C17: the dispatch of a request that awaits a callback stands still until
\* that callback settles.  Any step that changes what the dispatch has done
\* (its position, its invocations, its response) is the step in which the
\* awaited callback resolves or faults: nothing else, no timeout and no
\* cancellation, invokes a further callback, writes the 404 or ends it.
C17_NoProgressWhileAwaiting ==
    [][\A d \in Requests :
          (pc[d] = "awaiting" /\ DispatchOf(d)' # DispatchOf(d))
              => /\ Len(calls'[d]) >= Len(calls[d])
                 /\ calls'[d][Len(calls[d])].result # "pending"]_vars

\* A request still awaits its callback although the table has been changed
\* and the transport has been closed in the meantime.
C17_Witness ==
    \E d \in Requests :
        pc[d] = "awaiting" /\ changed[d] /\ server = "closed" /\ res[d] = NoResponse

(* ------------------------------ claim C18 ----------------------------- *)
\* Table positions of the matching entries that were registered while
\* request d has been awaiting its current callback.
RegisteredDuringSuspension(d) ==
    {i \in 1..Len(stack) :
        /\ stack[i].callback >= calls[d][Len(calls[d])].at
        /\ Matches(stack[i], req[d])}

\* C18 as stated: a dispatch resumes on the table as it is now.  The entry
\* it invokes next is in the table (an entry removed meanwhile is not
\* tried), and every matching entry registered during the suspension is
\* tried: the dispatch does not end with the 404 while one of them is in
\* the table.
C18_RegisteredDuringSuspensionIsTried ==
    [][\A d \in Requests :
          ResolvesTruthy(d)
              => /\ pc'[d] = "awaiting"
                     => \E i \in 1..Len(stack) :
                           calls'[d][Len(calls'[d])].handler = stack[i]
                 /\ pc'[d] = "notfound" => RegisteredDuringSuspension(d) = {}]_vars

\* C18, amended: a dispatch resumes on the table as it is now, from the
\* position after that of the awaited entry.  The entry it invokes next is in
\* the table at such a position (an entry removed meanwhile is not tried);
\* a matching entry registered during the suspension at such a position is
\* tried unless a matching entry before it is invoked first; one at or before
\* the position of the awaited entry is passed over.
C18_ResumesOnCurrentTable ==
    [][\A d \in Requests :
          ResolvesTruthy(d)
              => /\ pc'[d] = "awaiting"
                     => /\ idx'[d] \in (idx[d] + 1)..Len(stack)
                        /\ calls'[d][Len(calls'[d])].handler = stack[idx'[d]]
                 /\ \A i \in RegisteredDuringSuspension(d) :
                        IF i > idx[d]
                        THEN pc'[d] = "awaiting" /\ idx'[d] <= i
                        ELSE pc'[d] = "awaiting" => idx'[d] # i]_vars

\* The second callback invoked for a request belongs to an entry that was
\* registered while the first one was awaited.
C18_Witness ==
    \E d \in Requests :
        /\ Len(calls[d]) >= 2
        /\ calls[d][2].handler.callback >= calls[d][1].at

(* ------------------------------ claim C19 ----------------------------- *)
\* C19: registration needs initialize().  Before it a register() call throws
\* and leaves the table as it is, so the table of a server that was never
\* initialized is empty; after it every register() call appends exactly one
\* entry, the one it was given, at the end of the table.
C19_RegisterNeedsInitialize ==
    /\ [](/\ server = "undefined" => stack = <<>> /\ lastRegister # "pushed"
          /\ lastRegister = "threw" => stack = <<>> /\ nextCb = 1)
    /\ [][/\ (lastRegister' = "threw" /\ lastRegister # "threw")
              => server = "undefined" /\ UNCHANGED <<stack, nextCb, server>>
          /\ (lastRegister' = "pushed" /\ server # "undefined"
                /\ (lastRegister # "pushed" \/ nextCb' # nextCb))
              => /\ Len(stack') = Len(stack) + 1
                 /\ SubSeq(stack', 1, Len(stack)) = stack
                 /\ stack'[Len(stack')].callback = nextCb
          /\ (nextCb' # nextCb \/ Len(stack') > Len(stack))
              => server # "undefined" /\ lastRegister' = "pushed"
         ]_vars

\* A register() call has thrown, and the server has been initialized since.
C19_Witness == lastRegister = "threw" /\ server = "listening"

(* ------------------------------ claim C14 ----------------------------- *)
RECURSIVE Flatten(_)
\* The texts of a sequence of appends, one after the other.
Flatten(texts) == IF texts = <<>> THEN <<>> ELSE Head(texts) \o Flatten(Tail(texts))

\* C14: the log file holds the entries in the order of the log calls.  What
\* has been appended, then what is being appended, then what waits in the
\* cache is always the sequence of the entries logged so far (nothing lost,
\* nothing twice, nothing out of order), and at most one append is in
\* flight, exactly while this.writing is set.
C14_FileInLogOrder ==
    /\ file \o Flatten(inflight) \o cache = console
    /\ Len(inflight) <= 1
    /\ writing <=> inflight # <<>>
    /\ logPath = "undefined" => file = <<>> /\ inflight = <<>>

\* One append has completed, a second one is in flight, and an entry logged
\* meanwhile waits in the cache.
C14_Witness ==
    /\ logPath = "set"
    /\ file # <<>> /\ inflight # <<>> /\ cache # <<>>

(* ------------------------------ claim C15 ----------------------------- *)
\* The messages of the trace entries of a sequence of entries.
TraceEntries(entries) ==
    {entries[k].message : k \in {j \in 1..Len(entries) : entries[j].level = "trace"}}

\* C15: a trace message is logged only at log level 2.  A step that puts a
\* trace entry on the console or into the cache or an append is taken at
\* level 2; at level 0 or 1 a trace() call leaves console and cache alone.
C15_TraceOnlyAtLevelTwo ==
    [][(\/ TraceEntries(console') # TraceEntries(console)
        \/ TraceEntries(cache' \o Flatten(inflight'))
              \ TraceEntries(cache \o Flatten(inflight)) # {})
          => logLevel = 2]_vars

(* ------------------------------ claim C16 ----------------------------- *)
\* The entry of message m waits in the cache; the file system has appended it.
InCache(m) == \E k \in 1..Len(cache) : cache[k].message = m
InFile(m) == \E k \in 1..Len(file) : file[k].message = m

\* C16 as stated: once initialize() or close() has been called, every entry
\* in the cache is eventually appended, and the cache ends up empty with no
\* append in flight.
C16_EveryEntryEventuallyAppended ==
    /\ \A m \in 1..MaxLog :
          ((closeCalled \/ logPath = "set" \/ ipc # "idle") /\ InCache(m)) ~> InFile(m)
    /\ (closeCalled \/ logPath = "set" \/ ipc # "idle")
          ~> (cache = <<>> /\ inflight = <<>>)

\* C16, amended: every entry that is in the cache when initialize() is
\* called or when a close() call finds it there, and every entry logged
\* after that, is eventually appended: once this.path is set or such a call
\* waits for the folder, each cached entry gets into the file and the cache
\* gets empty with no append in flight.
C16_PendingEntriesEventuallyAppended ==
    /\ \A m \in 1..MaxLog :
          ((logPath = "set" \/ ipc # "idle" \/ cpc # "idle") /\ InCache(m)) ~> InFile(m)
    /\ (logPath = "set" \/ ipc # "idle" \/ cpc # "idle")
          ~> (cache = <<>> /\ inflight = <<>>)

\* Every entry of the run has been appended after a close() call, and
\* nothing is cached or in flight.
C16_Witness ==
    /\ closeCalled /\ logPath = "set"
    /\ Len(file) = MaxLog
    /\ cache = <<>> /\ inflight = <<>>

(* ------------------------------ claim C20 ----------------------------- *)
\* C20: no append is issued before the log folder is there.  While the
\* folder is missing nothing is in flight and nothing has been appended; in
\* particular a message logged while initialize() or close() waits for the
\* folder check or creation stays in the cache.
C20_NoAppendBeforeFolder ==
    folder = "missing" => inflight = <<>> /\ file = <<>>

====
